---- MODULE Spec2Model ----
(***************************************************************************)
(* Walk/fly navigation controller (createWalkFlyControls) of the 3D scene  *)
(* viewer, with the parts of the control panel and of the entry script     *)
(* that call it.                                                           *)
(*                                                                         *)
(* Numbers are fixed point:                                                *)
(*   angles             1e-4 rad      (Math.PI / 2 is 15708)               *)
(*   sines, axes, unit vectors  1e-4  (1.0 is Scale)                       *)
(*   positions, lengths 1e-3 world units (walkHeight 1.6 is 1600)          *)
(*   speed              1e-1 units/s  (speed 3 is 30)                      *)
(*   lookSpeed          1e-4 rad/px   (0.002 is 20)                        *)
(*   delta              1e-3 s                                             *)
(*   sensor angles      degrees                                            *)
(***************************************************************************)
EXTENDS Integers, Sequences, FiniteSets, TLC

(***************************************************************************)
(* Fixed-point arithmetic                                                  *)
(***************************************************************************)
Scale == 10^4
Pi == 31416
HalfPi == 15708
QuarterPi == HalfPi \div 2
TwoPi == 2 * Pi

Abs(a) == IF a < 0 THEN -a ELSE a
Sign(a) == IF a < 0 THEN -1 ELSE IF a > 0 THEN 1 ELSE 0
\* a / b rounded to the nearest integer, halves away from zero
RDiv(a, b) == Sign(a) * Sign(b) * ((2 * Abs(a) + Abs(b)) \div (2 * Abs(b)))
Mul(a, b) == RDiv(a * b, Scale)

clamp(value, min, max) ==
  LET lower == IF max < value THEN max ELSE value
  IN IF min > lower THEN min ELSE lower

\* an angle brought into (-Pi, Pi]
WrapAngle(a) == ((a + Pi - 1) % TwoPi) - (Pi - 1)

\* Taylor series on [0, Pi/4]
SinCore(x) ==
  LET x2 == Mul(x, x)
      t3 == RDiv(x * x2, 6 * Scale)
      t5 == RDiv(t3 * x2, 20 * Scale)
      t7 == RDiv(t5 * x2, 42 * Scale)
  IN x - t3 + t5 - t7
CosCore(x) ==
  LET x2 == Mul(x, x)
      t2 == RDiv(x2, 2)
      t4 == RDiv(t2 * x2, 12 * Scale)
      t6 == RDiv(t4 * x2, 30 * Scale)
  IN Scale - t2 + t4 - t6
SinQ(a) == IF a > QuarterPi THEN CosCore(HalfPi - a) ELSE SinCore(a)
SinPos(a) == IF a > HalfPi THEN SinQ(Pi - a) ELSE SinQ(a)
Sin(a) == LET w == WrapAngle(a) IN IF w < 0 THEN -SinPos(-w) ELSE SinPos(w)
Cos(a) == Sin(a + HalfPi)

RECURSIVE SqrtSearch(_, _, _)
SqrtSearch(n, lo, hi) ==
  IF lo >= hi THEN lo
  ELSE LET mid == (lo + hi + 1) \div 2
       IN IF mid * mid <= n THEN SqrtSearch(n, mid, hi)
          ELSE SqrtSearch(n, lo, mid - 1)
\* square root rounded to the nearest integer
ISqrt(n) ==
  LET f == SqrtSearch(n, 0, 46340)
  IN IF n - f * f > f THEN f + 1 ELSE f

\* arctangent of r on [0, 1] (Abramowitz and Stegun 4.4.47, error 1e-5)
AtanCore(r) ==
  LET r2 == Mul(r, r)
      p4 == 0 - 851 + Mul(208, r2)
      p3 == 1801 + Mul(p4, r2)
      p2 == 0 - 3303 + Mul(p3, r2)
      p1 == 9999 + Mul(p2, r2)
  IN Mul(r, p1)
Atan2(y, x) ==
  IF y = 0 THEN (IF x < 0 THEN Pi ELSE 0)
  ELSE IF x = 0 THEN Sign(y) * HalfPi
  ELSE LET ay == Abs(y)
           ax == Abs(x)
           a == IF ay <= ax THEN AtanCore(RDiv(ay * Scale, ax))
                ELSE HalfPi - AtanCore(RDiv(ax * Scale, ay))
       IN IF x > 0 THEN Sign(y) * a ELSE Sign(y) * (Pi - a)
Asin(v) ==
  IF v >= Scale THEN HalfPi
  ELSE IF v <= -Scale THEN -HalfPi
  ELSE Atan2(v, ISqrt(Scale * Scale - v * v))

(***************************************************************************)
(* three.js vectors, rotations and Euler angles                            *)
(***************************************************************************)
Vec(x, y, z) == [x |-> x, y |-> y, z |-> z]
VecAdd(a, b) == Vec(a.x + b.x, a.y + b.y, a.z + b.z)
VecSub(a, b) == Vec(a.x - b.x, a.y - b.y, a.z - b.z)
\* Vector3.addScaledVector(v, s) with s in Scale units
AddScaled(a, v, s) ==
  IF s = 0 THEN a
  ELSE Vec(a.x + Mul(v.x, s), a.y + Mul(v.y, s), a.z + Mul(v.z, s))
LengthSq(v) == v.x * v.x + v.y * v.y + v.z * v.z
Length(v) == ISqrt(LengthSq(v))
\* Vector3.normalize(): divideScalar(length() || 1)
Normalize(v) ==
  LET len == Length(v)
  IN IF len = 0 THEN v
     ELSE Vec(RDiv(v.x * Scale, len), RDiv(v.y * Scale, len), RDiv(v.z * Scale, len))
\* Vector3.crossVectors(a, b) of two vectors in Scale units
Cross(a, b) ==
  Vec(Mul(a.y, b.z) - Mul(a.z, b.y),
      Mul(a.z, b.x) - Mul(a.x, b.z),
      Mul(a.x, b.y) - Mul(a.y, b.x))

\* a rotation, the quaternion of the code, as its 3x3 matrix in row order
RotX(a) ==
  LET c == Cos(a) s == Sin(a)
  IN << Scale, 0, 0,   0, c, -s,   0, s, c >>
RotY(a) ==
  LET c == Cos(a) s == Sin(a)
  IN << c, 0, s,   0, Scale, 0,   -s, 0, c >>
RotZ(a) ==
  LET c == Cos(a) s == Sin(a)
  IN << c, -s, 0,   s, c, 0,   0, 0, Scale >>
\* Quaternion.multiply: the composed rotation
Multiply(A, B) ==
  [n \in 1..9 |->
     LET i == (n - 1) \div 3
         j == (n - 1) % 3
     IN RDiv(A[3 * i + 1] * B[j + 1] + A[3 * i + 2] * B[j + 4]
               + A[3 * i + 3] * B[j + 7], Scale)]
\* Quaternion.setFromEuler(Euler(x, y, z, 'YXZ'))
SetFromEuler(x, y, z) == Multiply(Multiply(RotY(y), RotX(x)), RotZ(z))
\* Euler.setFromQuaternion(q, 'YXZ'), through setFromRotationMatrix
EulerFromRotation(m) ==
  LET ex == Asin(-clamp(m[6], -Scale, Scale))
  IN IF Abs(m[6]) < Scale
     THEN Vec(ex, Atan2(m[3], m[9]), Atan2(m[4], m[5]))
     ELSE Vec(ex, Atan2(-m[7], m[1]), 0)
\* new Vector3(v).applyEuler(e) for a vector in Scale units
ApplyRotation(m, v) ==
  Vec(RDiv(m[1] * v.x + m[2] * v.y + m[3] * v.z, Scale),
      RDiv(m[4] * v.x + m[5] * v.y + m[6] * v.z, Scale),
      RDiv(m[7] * v.x + m[8] * v.y + m[9] * v.z, Scale))
DegToRad(deg) == RDiv(deg * Pi, 180)

(***************************************************************************)
(* Bounds of the model                                                     *)
(***************************************************************************)
\* look deltas (mouse moves and look-pad moves) taken in one run
MaxLooks == 1
\* frames that attempt a displacement in one run
MaxMoves == 2
\* setGyroEnabled calls awaiting their permission request at one time
MaxPending == 1

\* inputs the environment draws from
Deltas == {167, 300}
MouseDeltas == {Vec(0 - 50, 0 - 800, 0)}
PadPoints == {Vec(0, 0, 0), Vec(400, 600, 0)}
PointerIds == {1}
\* the joystick pad on the page, pointers on and around it, in pixels
MoveRect == [left |-> 40, top |-> 600, width |-> 120, height |-> 120]
MovePoints == { Vec(160, 600, 0), Vec(70, 660, 0), Vec(300, 900, 0) }
MovePointerIds == {1, 2}
\* frames and speeds of the steps whose length is measured
StepDeltas == {1000}
StepSpeeds == { 30, 0 - 30 }
InputKeyCodes ==
  { "KeyW", "KeyS", "KeyA", "KeyD", "Space", "ShiftLeft", "ShiftRight", "ArrowUp",
    "ArrowDown", "ArrowLeft", "ArrowRight", "KeyQ" }
\* lookPointerId = null
NoPointer == 0
Readings ==
  { [present |-> TRUE, alpha |-> 90, beta |-> 90, gamma |-> 0],
    [present |-> TRUE, alpha |-> 0, beta |-> 0, gamma |-> 0] }
NoReading == [present |-> FALSE, alpha |-> 0, beta |-> 0, gamma |-> 0]
ScreenAngles == {0, 90}
KeyCodes == {"KeyW", "Space", "KeyQ"}
Permissions == {"granted", "denied", "error"}
Wall(axis, at) == [axis |-> axis, at |-> at]
ColliderSets == { << >>, << Wall("x", 600), Wall("z", 4000) >> }
Rotations == { Vec(0, 0, 0), Vec(3000, 0 - 6435, 0) }
SpawnPositions == { Vec(0, 1000, 4600) }
\* the values the setters are called with: speed in tenths, look speed in
\* 1e-4 rad per pixel, radius in millimetres
Speeds == { 0, 0 - 30 }
LookSpeeds == { 0, 0 - 20 }
Radii == { 0, 0 - 350 }
\* what a caller writes into the record getState gave it
SnapshotWrites == { [field |-> "speed", value |-> 990] }

(***************************************************************************)
(* State of createWalkFlyControls and of the browser around it             *)
(***************************************************************************)
VARIABLES
  state,            \* ControlState
  movement,         \* the six key flags
  lastKeyDown,      \* per flag: the last event among its key codes was a keydown
  touchMovement,    \* the movement joystick axes, in Scale units
  movePad,          \* [pointerId, center, radius] of the movement joystick
  colliderTargets,  \* sequence of colliders
  colliderRadius,
  yaw, pitch,       \* the orientation accumulators
  isPointerLocked,
  deviceOrientation,
  screenOrientation,
  lookOffsetYaw, lookOffsetPitch,
  camera,           \* [position, rotation]: rotation is the YXZ Euler of the camera
  listeners,        \* registered event listeners of the controller
  touchControls,    \* "none" | "attached" | "removed"
  lookPad,          \* [pointerId, lastLook] of the look pad
  browser,          \* [isTouch, requestPermission, pointerLock, angle]
  pending,          \* setGyroEnabled(true) calls awaiting requestPermission()
  disposed,         \* dispose() has returned
  spawned,          \* the entry script has placed the camera at SPAWN
  snapshot,         \* the record a caller of getState holds
  panel,            \* the control panel: [created, toggle, checked, awaiting]
  resolved,         \* what the last settled setGyroEnabled call resolved to
  looks, moves      \* look deltas and moving frames taken so far

vars ==
  << state, movement, lastKeyDown, touchMovement, movePad, colliderTargets, colliderRadius, yaw, pitch,
     isPointerLocked, deviceOrientation, screenOrientation, lookOffsetYaw,
     lookOffsetPitch, camera, listeners, touchControls, lookPad, browser, pending,
     disposed, spawned, snapshot, panel, resolved, looks, moves >>

\* the key codes of each movement flag in the switch of onKeyDown and onKeyUp
KeyTable ==
  [forward |-> {"KeyW", "ArrowUp"}, backward |-> {"KeyS", "ArrowDown"},
   left |-> {"KeyA", "ArrowLeft"}, right |-> {"KeyD", "ArrowRight"},
   up |-> {"Space"}, down |-> {"ShiftLeft", "ShiftRight"}]

\* the keyboard after an event of key code: whether the last event among the
\* key codes of each flag was a keydown
KeyEvent(code, down) ==
  [flag \in DOMAIN KeyTable |->
     IF code \in KeyTable[flag] THEN down ELSE lastKeyDown[flag]]

\* createUI has not run: no 'Gyro Look' checkbox, no continuation waiting for a
\* setGyroEnabled promise
NoPanel ==
  [created |-> FALSE, toggle |-> FALSE, checked |-> FALSE,
   awaiting |-> [auto |-> 0, change |-> 0]]

\* no getState call has returned yet
NoSnapshot == [object |-> "none"]

Listener(target, type, handler, capture) ==
  [target |-> target, type |-> type, handler |-> handler, capture |-> capture]
\* the listeners registered at construction
BaseListeners ==
  { Listener("document", "pointerlockchange", "onPointerLockChange", FALSE),
    Listener("document", "mousemove", "onMouseMove", FALSE),
    Listener("document", "keydown", "onKeyDown", FALSE),
    Listener("document", "keyup", "onKeyUp", FALSE),
    Listener("domElement", "click", "requestPointerLock", FALSE) }
\* EventTarget dispatch: a handler runs when it is registered for the type
Registered(target, type) ==
  \E l \in listeners : l.target = target /\ l.type = type

\* createCamera: position (0, 1, 5), no rotation
createCamera == [position |-> Vec(0, 1000, 5000), rotation |-> Vec(0, 0, 0)]

\* the closure of createWalkFlyControls apart from the navigation state and the
\* movement input
Closure(cam, touch, avail, perm) ==
  /\ browser = [isTouch |-> touch, requestPermission |-> avail /\ perm,
                pointerLock |-> FALSE, angle |-> 0]
  /\ touchControls = IF touch THEN "attached" ELSE "none"
  /\ colliderTargets = << >>
  /\ colliderRadius = 350
  /\ camera = cam
  /\ yaw = cam.rotation.y
  /\ pitch = cam.rotation.x
  /\ isPointerLocked = FALSE
  /\ deviceOrientation = NoReading
  /\ screenOrientation = 0
  /\ lookOffsetYaw = 0
  /\ lookOffsetPitch = 0
  /\ listeners = BaseListeners
  /\ lookPad = [pointerId |-> NoPointer, lastLook |-> Vec(0, 0, 0)]
  /\ pending = 0
  /\ resolved = [settled |-> FALSE, requested |-> FALSE, value |-> FALSE]
  /\ disposed = FALSE
  /\ spawned = FALSE
  /\ snapshot = NoSnapshot
  /\ panel = NoPanel
  /\ looks = 0
  /\ moves = 0

\* the state createWalkFlyControls(camera, domElement) returns in
Construct(cam, touch, avail, perm) ==
  /\ state = [flyMode |-> TRUE, speed |-> 30, lookSpeed |-> 20,
              walkHeight |-> 1600, gyroEnabled |-> FALSE, gyroAvailable |-> avail]
  /\ movement = [forward |-> 0, backward |-> 0, left |-> 0, right |-> 0,
                 up |-> 0, down |-> 0]
  /\ lastKeyDown = [flag \in DOMAIN KeyTable |-> FALSE]
  /\ touchMovement = [x |-> 0, z |-> 0]
  /\ movePad = [pointerId |-> NoPointer, center |-> Vec(0, 0, 0), radius |-> 0]
  /\ Closure(cam, touch, avail, perm)

\* the entry script's camera, on any platform
Init ==
  \E touch \in BOOLEAN, avail \in BOOLEAN, perm \in BOOLEAN :
    Construct(createCamera, touch, avail, perm)

(***************************************************************************)
(* Orientation                                                             *)
(***************************************************************************)
\* the margin 0.05 of the pitch clamp
PitchMargin == 500
\* Math.PI / 3, the bound of the look-offset pitch
ThirdPi == 10472

\* q1: -90 degrees about X, the device-to-world correction
q1 == RotX(-HalfPi)
setObjectQuaternion(alpha, beta, gamma, orient) ==
  Multiply(Multiply(SetFromEuler(beta, alpha, -gamma), q1), RotZ(-orient))

\* updateRotation on accumulators (y, p): [pitch, rotation]
updateRotation(y, p) ==
  LET clamped == clamp(p, -HalfPi + PitchMargin, HalfPi - PitchMargin)
  IN [pitch |-> clamped, rotation |-> Vec(clamped, y, 0)]

\* the gyro part of update: the camera rotation it leaves
GyroRotation ==
  IF state.gyroEnabled /\ deviceOrientation.present
  THEN LET alpha == DegToRad(deviceOrientation.alpha)
           beta == DegToRad(deviceOrientation.beta)
           gamma == DegToRad(deviceOrientation.gamma)
           orient == DegToRad(screenOrientation)
           qOffset == SetFromEuler(lookOffsetPitch, lookOffsetYaw, 0)
       IN EulerFromRotation(
            Multiply(setObjectQuaternion(alpha, beta, gamma, orient), qOffset))
  ELSE camera.rotation

(***************************************************************************)
(* Movement and the collision guard                                        *)
(***************************************************************************)
\* a sideways input in which the joystick, when deflected, replaces the keys
inputXStickFirst ==
  IF touchMovement.x # 0 THEN touchMovement.x
  ELSE (movement.right - movement.left) * Scale

inputX == (movement.right - movement.left) * Scale + touchMovement.x
inputZ == (movement.forward - movement.backward) * Scale - touchMovement.z
inputY == (movement.up - movement.down) * Scale

\* the camera's viewing direction, a unit vector
WorldDirection(rot) ==
  ApplyRotation(SetFromEuler(rot.x, rot.y, rot.z), Vec(0, 0, -Scale))
\* walk mode: forward.y = 0; forward.normalize()
Flattened(w) == Normalize(Vec(w.x, 0, w.z))
\* forward of the fly branch (applyEuler) and of the walk branch (getWorldDirection)
Forward(rot) ==
  IF state.flyMode THEN WorldDirection(rot)
  ELSE Flattened(Normalize(WorldDirection(rot)))
Right(forward) == Normalize(Cross(forward, Vec(0, Scale, 0)))
\* a sum that takes the vertical input in walk mode too
SummedWithLift(forward, right) ==
  Vec(AddScaled(AddScaled(Vec(0, 0, 0), right, inputX), forward, inputZ).x,
      AddScaled(AddScaled(Vec(0, 0, 0), right, inputX), forward, inputZ).y + inputY,
      AddScaled(AddScaled(Vec(0, 0, 0), right, inputX), forward, inputZ).z)

\* direction.addScaledVector(right, inputX).addScaledVector(forward, inputZ),
\* and direction.y += inputY in fly mode
Summed(forward, right) ==
  LET flat == AddScaled(AddScaled(Vec(0, 0, 0), right, inputX), forward, inputZ)
  IN IF state.flyMode THEN Vec(flat.x, flat.y + inputY, flat.z) ELSE flat
Steered(forward) == Summed(forward, Right(forward))
\* a direction that is never normalised
Unclamped(direction) == direction

\* if (direction.lengthSq() > 1) direction.normalize()
UnitClamped(direction) ==
  IF LengthSq(direction) > Scale * Scale THEN Normalize(direction) ELSE direction
\* the direction of one frame, before it is scaled by speed * delta
Direction(rot) == UnitClamped(Steered(Forward(rot)))
\* camera.position.addScaledVector(d, speed * delta), then the walk-height snap
Moved(d, delta) ==
  LET step == state.speed * delta
  IN Vec(camera.position.x + RDiv(d.x * step, 10^5),
         IF state.flyMode THEN camera.position.y + RDiv(d.y * step, 10^5)
         ELSE state.walkHeight,
         camera.position.z + RDiv(d.z * step, 10^5))
\* camera.position after the integration and the walk-height snap
Integrated(rot, delta) == Moved(Direction(rot), delta)

Along(v, axis) == IF axis = "x" THEN v.x ELSE v.z
\* the distance along the ray (origin, dir) at which it meets the wall w
HitDistance(origin, dir, w) ==
  RDiv((w.at - Along(origin, w.axis)) * Scale, Along(dir, w.axis))
\* Raycaster.intersectObjects: the hit distances within [near = 0, far]
Hits(origin, dir, far) ==
  { HitDistance(origin, dir, colliderTargets[i]) :
      i \in { j \in 1..Len(colliderTargets) :
                LET w == colliderTargets[j]
                IN /\ Along(dir, w.axis) # 0
                   /\ (w.at - Along(origin, w.axis)) * Along(dir, w.axis) >= 0
                   /\ HitDistance(origin, dir, w) <= far } }
Nearest(hits) == CHOOSE t \in hits : \A o \in hits : t <= o
\* a guard that compares the nearest hit with the step length alone
RejectedWithoutRadius(previousPosition, position) ==
  /\ Len(colliderTargets) > 0
  /\ LET movementDelta == VecSub(position, previousPosition)
         distance == Length(movementDelta)
     IN /\ distance > 0
        /\ LET hits == Hits(previousPosition, Normalize(movementDelta),
                            distance + colliderRadius)
           IN /\ hits # {}
              /\ Nearest(hits) < distance
\* the collision guard: TRUE when the step from previousPosition is rolled back
Rejected(previousPosition, position) ==
  /\ Len(colliderTargets) > 0
  /\ LET movementDelta == VecSub(position, previousPosition)
         distance == Length(movementDelta)
     IN /\ distance > 0
        /\ LET hits == Hits(previousPosition, Normalize(movementDelta),
                            distance + colliderRadius)
           IN /\ hits # {}
              /\ Nearest(hits) < distance + colliderRadius

(***************************************************************************)
(* Input handlers                                                          *)
(***************************************************************************)
input_vars == << movement, lastKeyDown, touchMovement, movePad >>
collider_vars == << colliderTargets, colliderRadius >>
look_vars == << yaw, pitch, lookOffsetYaw, lookOffsetPitch >>
sensor_vars == << deviceOrientation, screenOrientation >>
dom_vars == << listeners, touchControls >>
bound_vars == << looks, moves >>
caller_vars == << spawned, snapshot, panel >>

\* click on the render element: requestPointerLock, the browser engages the lock
\* and dispatches pointerlockchange on document
requestPointerLock ==
  /\ Registered("domElement", "click")
  /\ ~browser.isTouch
  /\ ~browser.pointerLock
  /\ browser' = [browser EXCEPT !.pointerLock = TRUE]
  /\ isPointerLocked' =
       IF Registered("document", "pointerlockchange") THEN TRUE ELSE isPointerLocked
  /\ UNCHANGED << state, input_vars, collider_vars, look_vars, sensor_vars, camera,
                  dom_vars, lookPad, pending, resolved, disposed, caller_vars, bound_vars >>

\* the user leaves pointer lock: pointerlockchange with no lock element
onPointerLockChange ==
  /\ browser.pointerLock
  /\ browser' = [browser EXCEPT !.pointerLock = FALSE]
  /\ isPointerLocked' =
       IF Registered("document", "pointerlockchange") THEN FALSE ELSE isPointerLocked
  /\ UNCHANGED << state, input_vars, collider_vars, look_vars, sensor_vars, camera,
                  dom_vars, lookPad, pending, resolved, disposed, caller_vars, bound_vars >>

\* a mouse handler that does not look at state.gyroEnabled
onMouseMoveUnderGyro(event) ==
  /\ Registered("document", "mousemove")
  /\ \/ /\ ~isPointerLocked
        /\ UNCHANGED << yaw, pitch, camera, looks >>
     \/ /\ isPointerLocked
        /\ looks < MaxLooks
        /\ LET r == updateRotation(yaw - event.x * state.lookSpeed,
                                   pitch - event.y * state.lookSpeed)
           IN /\ yaw' = yaw - event.x * state.lookSpeed
              /\ pitch' = r.pitch
              /\ camera' = [camera EXCEPT !.rotation = r.rotation]
        /\ looks' = looks + 1
  /\ UNCHANGED << state, input_vars, collider_vars, isPointerLocked, sensor_vars,
                  lookOffsetYaw, lookOffsetPitch, dom_vars, lookPad, browser,
                  pending, resolved, disposed, caller_vars, moves >>

onMouseMove(event) ==
  /\ Registered("document", "mousemove")
  /\ \/ /\ ~isPointerLocked \/ state.gyroEnabled
        /\ UNCHANGED << yaw, pitch, camera, looks >>
     \/ /\ isPointerLocked
        /\ ~state.gyroEnabled
        /\ looks < MaxLooks
        /\ LET r == updateRotation(yaw - event.x * state.lookSpeed,
                                   pitch - event.y * state.lookSpeed)
           IN /\ yaw' = yaw - event.x * state.lookSpeed
              /\ pitch' = r.pitch
              /\ camera' = [camera EXCEPT !.rotation = r.rotation]
        /\ looks' = looks + 1
  /\ UNCHANGED << state, input_vars, collider_vars, isPointerLocked, sensor_vars,
                  lookOffsetYaw, lookOffsetPitch, dom_vars, lookPad, browser,
                  pending, resolved, disposed, caller_vars, moves >>

\* a key table without the arrow keys
KeyFlagWithoutArrows(code) ==
  CASE code = "KeyW" -> "forward"
    [] code = "KeyS" -> "backward"
    [] code = "KeyA" -> "left"
    [] code = "KeyD" -> "right"
    [] code = "Space" -> "up"
    [] code \in {"ShiftLeft", "ShiftRight"} -> "down"
    [] OTHER -> ""

\* the movement flag a key code maps to, "" for any other key
KeyFlag(code) ==
  CASE code \in {"KeyW", "ArrowUp"} -> "forward"
    [] code \in {"KeyS", "ArrowDown"} -> "backward"
    [] code \in {"KeyA", "ArrowLeft"} -> "left"
    [] code \in {"KeyD", "ArrowRight"} -> "right"
    [] code = "Space" -> "up"
    [] code \in {"ShiftLeft", "ShiftRight"} -> "down"
    [] OTHER -> ""
SetFlag(code, value) ==
  IF KeyFlag(code) = "" THEN movement
  ELSE [movement EXCEPT ![KeyFlag(code)] = value]

onKeyDown(code) ==
  /\ Registered("document", "keydown")
  /\ movement' = SetFlag(code, 1)
  /\ lastKeyDown' = KeyEvent(code, TRUE)
  /\ UNCHANGED << state, touchMovement, movePad, collider_vars, look_vars, isPointerLocked,
                  sensor_vars, camera, dom_vars, lookPad, browser, pending, resolved,
                  disposed, caller_vars, bound_vars >>

onKeyUp(code) ==
  /\ Registered("document", "keyup")
  /\ movement' = SetFlag(code, 0)
  /\ lastKeyDown' = KeyEvent(code, FALSE)
  /\ UNCHANGED << state, touchMovement, movePad, collider_vars, look_vars, isPointerLocked,
                  sensor_vars, camera, dom_vars, lookPad, browser, pending, resolved,
                  disposed, caller_vars, bound_vars >>

\* joystick axes that are not clamped to the pad
updateMoveUnclamped(point, center, radius) ==
  [x |-> RDiv((point.x - center.x) * Scale, radius),
   z |-> RDiv((point.y - center.y) * Scale, radius)]

\* updateMove: the joystick axes for a pointer at point
updateMove(point, center, radius) ==
  [x |-> clamp(RDiv((point.x - center.x) * Scale, radius), -Scale, Scale),
   z |-> clamp(RDiv((point.y - center.y) * Scale, radius), -Scale, Scale)]

\* the centre and the radius the pad's bounding rectangle gives the joystick
Center(rect) ==
  Vec(rect.left + rect.width \div 2, rect.top + rect.height \div 2, 0)
Radius(rect) == rect.width \div 2

\* pointerdown on the joystick pad
movePadPointerDown(id, point) ==
  /\ touchControls = "attached"
  /\ movePad' = [pointerId |-> id, center |-> Center(MoveRect),
                 radius |-> Radius(MoveRect)]
  /\ touchMovement' = updateMove(point, Center(MoveRect), Radius(MoveRect))
  /\ UNCHANGED << state, movement, lastKeyDown, collider_vars, look_vars, isPointerLocked,
                  sensor_vars, camera, dom_vars, lookPad, browser, pending, resolved,
                  disposed, caller_vars, bound_vars >>

\* pointermove on the joystick pad
movePadPointerMove(id, point) ==
  /\ touchControls = "attached"
  /\ IF id # movePad.pointerId
     THEN UNCHANGED touchMovement
     ELSE touchMovement' = updateMove(point, movePad.center, movePad.radius)
  /\ UNCHANGED << state, movement, lastKeyDown, movePad, collider_vars, look_vars,
                  isPointerLocked, sensor_vars, camera, dom_vars, lookPad, browser,
                  pending, resolved, disposed, caller_vars, bound_vars >>

\* pointerup or pointercancel on the joystick pad
resetMove ==
  /\ touchControls = "attached"
  /\ movePad' = [movePad EXCEPT !.pointerId = NoPointer]
  /\ touchMovement' = [x |-> 0, z |-> 0]
  /\ UNCHANGED << state, movement, lastKeyDown, collider_vars, look_vars, isPointerLocked,
                  sensor_vars, camera, dom_vars, lookPad, browser, pending, resolved,
                  disposed, caller_vars, bound_vars >>

\* pointerdown on the look pad
lookPadPointerDown(id, point) ==
  /\ touchControls = "attached"
  /\ lookPad' = [pointerId |-> id, lastLook |-> point]
  /\ UNCHANGED << state, input_vars, collider_vars, look_vars, isPointerLocked,
                  sensor_vars, camera, dom_vars, browser, pending, resolved, disposed,
                  caller_vars, bound_vars >>

\* a look pad whose offset pitch is not clamped
lookPadPointerMoveUnclamped(id, point) ==
  /\ touchControls = "attached"
  /\ LET dx == point.x - lookPad.lastLook.x
         dy == point.y - lookPad.lastLook.y
     IN \/ /\ id # lookPad.pointerId
           /\ UNCHANGED << look_vars, camera, lookPad, looks >>
        \/ /\ id = lookPad.pointerId
           /\ looks < MaxLooks
           /\ lookPad' = [lookPad EXCEPT !.lastLook = point]
           /\ looks' = looks + 1
           /\ IF state.gyroEnabled
              THEN /\ lookOffsetYaw' =
                        lookOffsetYaw - RDiv(dx * state.lookSpeed * 12, 10)
                   /\ lookOffsetPitch' =
                        lookOffsetPitch - RDiv(dy * state.lookSpeed * 12, 10)
                   /\ UNCHANGED << yaw, pitch, camera >>
              ELSE LET y == yaw - RDiv(dx * state.lookSpeed * 15, 10)
                       r == updateRotation(
                              y, pitch - RDiv(dy * state.lookSpeed * 15, 10))
                   IN /\ yaw' = y
                      /\ pitch' = r.pitch
                      /\ camera' = [camera EXCEPT !.rotation = r.rotation]
                      /\ UNCHANGED << lookOffsetYaw, lookOffsetPitch >>
  /\ UNCHANGED << state, input_vars, collider_vars, isPointerLocked, sensor_vars,
                  dom_vars, browser, pending, resolved, disposed, caller_vars, moves >>

\* pointermove on the look pad
lookPadPointerMove(id, point) ==
  /\ touchControls = "attached"
  /\ LET dx == point.x - lookPad.lastLook.x
         dy == point.y - lookPad.lastLook.y
     IN \/ /\ id # lookPad.pointerId
           /\ UNCHANGED << look_vars, camera, lookPad, looks >>
        \/ /\ id = lookPad.pointerId
           /\ looks < MaxLooks
           /\ lookPad' = [lookPad EXCEPT !.lastLook = point]
           /\ looks' = looks + 1
           /\ IF state.gyroEnabled
              THEN /\ lookOffsetYaw' =
                        lookOffsetYaw - RDiv(dx * state.lookSpeed * 12, 10)
                   /\ lookOffsetPitch' =
                        clamp(lookOffsetPitch - RDiv(dy * state.lookSpeed * 12, 10),
                              -ThirdPi, ThirdPi)
                   /\ UNCHANGED << yaw, pitch, camera >>
              ELSE LET y == yaw - RDiv(dx * state.lookSpeed * 15, 10)
                       r == updateRotation(
                              y, pitch - RDiv(dy * state.lookSpeed * 15, 10))
                   IN /\ yaw' = y
                      /\ pitch' = r.pitch
                      /\ camera' = [camera EXCEPT !.rotation = r.rotation]
                      /\ UNCHANGED << lookOffsetYaw, lookOffsetPitch >>
  /\ UNCHANGED << state, input_vars, collider_vars, isPointerLocked, sensor_vars,
                  dom_vars, browser, pending, resolved, disposed, caller_vars, moves >>

\* pointerup or pointercancel on the look pad
resetLook ==
  /\ touchControls = "attached"
  /\ lookPad.pointerId # NoPointer
  /\ lookPad' = [lookPad EXCEPT !.pointerId = NoPointer]
  /\ UNCHANGED << state, input_vars, collider_vars, look_vars, isPointerLocked,
                  sensor_vars, camera, dom_vars, browser, pending, resolved, disposed,
                  caller_vars, bound_vars >>

\* a deviceorientation event on window
handleDeviceOrientation(event) ==
  /\ Registered("window", "deviceorientation")
  /\ deviceOrientation' = event
  /\ UNCHANGED << state, input_vars, collider_vars, look_vars, isPointerLocked,
                  screenOrientation, camera, dom_vars, lookPad, browser, pending, resolved,
                  disposed, caller_vars, bound_vars >>

\* the screen turns to angle: an orientationchange event on window
handleOrientationChange(angle) ==
  /\ angle # browser.angle
  /\ browser' = [browser EXCEPT !.angle = angle]
  /\ screenOrientation' =
       IF Registered("window", "orientationchange") THEN angle
       ELSE screenOrientation
  /\ UNCHANGED << state, input_vars, collider_vars, look_vars, isPointerLocked,
                  deviceOrientation, camera, dom_vars, lookPad, pending, resolved, disposed,
                  caller_vars, bound_vars >>

(***************************************************************************)
(* The control API                                                         *)
(***************************************************************************)
\* the end of update: the collision guard commits position or rolls it back
Committed(rotation, previousPosition, position) ==
  /\ position # previousPosition => moves < MaxMoves
  /\ camera' = [position |-> IF Rejected(previousPosition, position)
                             THEN previousPosition ELSE position,
                rotation |-> rotation]
  /\ moves' = IF position # previousPosition THEN moves + 1 ELSE moves
\* update once the gyro part has left the camera at rotation
Stepped(rotation, delta) ==
  Committed(rotation, camera.position, Integrated(rotation, delta))
\* an update that consumes the key flags it has read
updateReleasingKeys(delta) ==
  /\ UNCHANGED << state, lastKeyDown, touchMovement, movePad, collider_vars, look_vars,
                  isPointerLocked, sensor_vars, dom_vars, lookPad, browser, pending,
                  resolved, disposed, caller_vars, looks >>
  /\ movement' = [forward |-> 0, backward |-> 0, left |-> 0, right |-> 0,
                  up |-> 0, down |-> 0]
  /\ Stepped(GyroRotation, delta)

update(delta) ==
  /\ UNCHANGED << state, input_vars, collider_vars, look_vars, isPointerLocked,
                  sensor_vars, dom_vars, lookPad, browser, pending, resolved, disposed,
                  caller_vars, looks >>
  /\ Stepped(GyroRotation, delta)

\* a removeEventListener that registers the listener when it is not registered
RemovedOrRestored(set, target, type, handler) ==
  IF Listener(target, type, handler, FALSE) \in set
  THEN set \ { Listener(target, type, handler, FALSE) }
  ELSE set \cup { Listener(target, type, handler, FALSE) }

\* removeEventListener(type, handler): the capture flag defaults to false
Removed(set, target, type, handler) ==
  set \ { Listener(target, type, handler, FALSE) }

\* the seven removeEventListener calls of dispose, applied to a listener set
Disposal(set) ==
  Removed(Removed(Removed(Removed(Removed(Removed(Removed(set,
    "document", "pointerlockchange", "onPointerLockChange"),
    "document", "mousemove", "onMouseMove"),
    "document", "keydown", "onKeyDown"),
    "document", "keyup", "onKeyUp"),
    "domElement", "click", "requestPointerLock"),
    "window", "deviceorientation", "handleDeviceOrientation"),
    "window", "orientationchange", "handleOrientationChange")

\* touchControls?.remove(): detaches the overlay, nothing to do when detached
Detached(controls) == IF controls = "attached" THEN "removed" ELSE controls

dispose ==
  /\ listeners' = Disposal(listeners)
  /\ touchControls' = Detached(touchControls)
  /\ disposed' = TRUE
  /\ UNCHANGED << state, input_vars, collider_vars, look_vars, isPointerLocked,
                  sensor_vars, camera, lookPad, browser, pending, resolved, caller_vars,
                  bound_vars >>

\* the promise of a setGyroEnabled call resolved with value
Resolved(enabled, value) == [settled |-> TRUE, requested |-> enabled, value |-> value]

\* an enabling that keeps the accumulators it finds
SetGyroKeepingBaseline(enabled) ==
  /\ state' = [state EXCEPT !.gyroEnabled = enabled]
  /\ IF enabled
     THEN /\ screenOrientation' = browser.angle
          /\ listeners' = listeners \cup
               { Listener("window", "deviceorientation", "handleDeviceOrientation", TRUE),
                 Listener("window", "orientationchange", "handleOrientationChange", FALSE) }
          /\ lookOffsetYaw' = 0
          /\ lookOffsetPitch' = 0
          /\ UNCHANGED << yaw, pitch >>
     ELSE /\ listeners' =
               Removed(Removed(listeners,
                 "window", "deviceorientation", "handleDeviceOrientation"),
                 "window", "orientationchange", "handleOrientationChange")
          /\ UNCHANGED << screenOrientation, look_vars >>

\* setGyroEnabled from "state.gyroEnabled = enabled" to its return
SetGyro(enabled) ==
  /\ state' = [state EXCEPT !.gyroEnabled = enabled]
  /\ IF enabled
     THEN /\ screenOrientation' = browser.angle
          /\ listeners' = listeners \cup
               { Listener("window", "deviceorientation", "handleDeviceOrientation", TRUE),
                 Listener("window", "orientationchange", "handleOrientationChange", FALSE) }
          /\ yaw' = camera.rotation.y
          /\ pitch' = camera.rotation.x
          /\ lookOffsetYaw' = 0
          /\ lookOffsetPitch' = 0
     ELSE /\ listeners' =
               Removed(Removed(listeners,
                 "window", "deviceorientation", "handleDeviceOrientation"),
                 "window", "orientationchange", "handleOrientationChange")
          /\ UNCHANGED << screenOrientation, look_vars >>

\* a call that assigns state.gyroEnabled before it awaits the permission request
setGyroEnabledEagerly(enabled) ==
  /\ \/ /\ ~state.gyroAvailable
        /\ state' = [state EXCEPT !.gyroEnabled = FALSE]
        /\ resolved' = Resolved(enabled, FALSE)
        /\ UNCHANGED << look_vars, screenOrientation, listeners, pending >>
     \/ /\ state.gyroAvailable
        /\ enabled
        /\ browser.requestPermission
        /\ pending < MaxPending
        /\ pending' = pending + 1
        /\ state' = [state EXCEPT !.gyroEnabled = enabled]
        /\ UNCHANGED << look_vars, screenOrientation, listeners, resolved >>
     \/ /\ state.gyroAvailable
        /\ ~(enabled /\ browser.requestPermission)
        /\ SetGyro(enabled)
        /\ resolved' = Resolved(enabled, state'.gyroEnabled)
        /\ UNCHANGED pending
  /\ UNCHANGED << input_vars, collider_vars, isPointerLocked, deviceOrientation,
                  camera, touchControls, lookPad, browser, disposed,
                  bound_vars >>

\* a call that skips the permission request once a request has been granted
setGyroEnabledCachingGrant(enabled) ==
  /\ \/ /\ ~state.gyroAvailable
        /\ state' = [state EXCEPT !.gyroEnabled = FALSE]
        /\ resolved' = Resolved(enabled, FALSE)
        /\ UNCHANGED << look_vars, screenOrientation, listeners, pending >>
     \/ /\ state.gyroAvailable
        /\ enabled
        /\ browser.requestPermission
        /\ resolved # Resolved(TRUE, TRUE)
        /\ pending < MaxPending
        /\ pending' = pending + 1
        /\ UNCHANGED << state, look_vars, screenOrientation, listeners, resolved >>
     \/ /\ state.gyroAvailable
        /\ ~(enabled /\ browser.requestPermission /\ resolved # Resolved(TRUE, TRUE))
        /\ SetGyro(enabled)
        /\ resolved' = Resolved(enabled, state'.gyroEnabled)
        /\ UNCHANGED pending
  /\ UNCHANGED << input_vars, collider_vars, isPointerLocked, deviceOrientation,
                  camera, touchControls, lookPad, browser, disposed,
                  bound_vars >>

\* a call of setGyroEnabled(enabled), up to its return or its await
setGyroEnabled(enabled) ==
  /\ \/ /\ ~state.gyroAvailable
        /\ state' = [state EXCEPT !.gyroEnabled = FALSE]
        /\ resolved' = Resolved(enabled, FALSE)
        /\ UNCHANGED << look_vars, screenOrientation, listeners, pending >>
     \/ /\ state.gyroAvailable
        /\ enabled
        /\ browser.requestPermission
        /\ pending < MaxPending
        /\ pending' = pending + 1
        /\ UNCHANGED << state, look_vars, screenOrientation, listeners, resolved >>
     \/ /\ state.gyroAvailable
        /\ ~(enabled /\ browser.requestPermission)
        /\ SetGyro(enabled)
        /\ resolved' = Resolved(enabled, state'.gyroEnabled)
        /\ UNCHANGED pending
  /\ UNCHANGED << input_vars, collider_vars, isPointerLocked, deviceOrientation,
                  camera, touchControls, lookPad, browser, disposed,
                  bound_vars >>

\* a resumption that returns false on a refusal without clearing state.gyroEnabled
permissionSettledKeepingGyro(permission) ==
  /\ pending > 0
  /\ pending' = pending - 1
  /\ \/ /\ permission = "granted"
        /\ SetGyro(TRUE)
        /\ resolved' = Resolved(TRUE, state'.gyroEnabled)
     \/ /\ permission # "granted"
        /\ resolved' = Resolved(TRUE, FALSE)
        /\ UNCHANGED << state, look_vars, screenOrientation, listeners >>
  /\ UNCHANGED << input_vars, collider_vars, isPointerLocked, deviceOrientation,
                  camera, touchControls, lookPad, browser, disposed,
                  bound_vars >>

\* a resumption that gives way to a setGyroEnabled(false) completed meanwhile
permissionSettledSuperseded(permission) ==
  /\ pending > 0
  /\ pending' = pending - 1
  /\ \/ /\ permission = "granted"
        /\ resolved # Resolved(FALSE, FALSE)
        /\ SetGyro(TRUE)
        /\ resolved' = Resolved(TRUE, state'.gyroEnabled)
     \/ /\ permission = "granted"
        /\ resolved = Resolved(FALSE, FALSE)
        /\ resolved' = Resolved(TRUE, FALSE)
        /\ UNCHANGED << state, look_vars, screenOrientation, listeners >>
     \/ /\ permission # "granted"
        /\ state' = [state EXCEPT !.gyroEnabled = FALSE]
        /\ resolved' = Resolved(TRUE, FALSE)
        /\ UNCHANGED << look_vars, screenOrientation, listeners >>
  /\ UNCHANGED << input_vars, collider_vars, isPointerLocked, deviceOrientation,
                  camera, touchControls, lookPad, browser, disposed,
                  bound_vars >>

\* requestPermission() settles and the awaiting setGyroEnabled(true) resumes
permissionSettled(permission) ==
  /\ pending > 0
  /\ pending' = pending - 1
  /\ \/ /\ permission = "granted"
        /\ SetGyro(TRUE)
        /\ resolved' = Resolved(TRUE, state'.gyroEnabled)
     \/ /\ permission # "granted"
        /\ state' = [state EXCEPT !.gyroEnabled = FALSE]
        /\ resolved' = Resolved(TRUE, FALSE)
        /\ UNCHANGED << look_vars, screenOrientation, listeners >>
  /\ UNCHANGED << input_vars, collider_vars, isPointerLocked, deviceOrientation,
                  camera, touchControls, lookPad, browser, disposed,
                  bound_vars >>

\* a setFlyMode that leaves the height to the next update
setFlyModeWithoutSnap(enabled) ==
  /\ state' = [state EXCEPT !.flyMode = enabled]
  /\ UNCHANGED << camera, input_vars, collider_vars, look_vars, isPointerLocked,
                  sensor_vars, dom_vars, lookPad, browser, pending, resolved, disposed,
                  caller_vars, bound_vars >>

setFlyMode(enabled) ==
  /\ state' = [state EXCEPT !.flyMode = enabled]
  /\ camera' = IF enabled THEN camera
               ELSE [camera EXCEPT !.position.y = state.walkHeight]
  /\ UNCHANGED << input_vars, collider_vars, look_vars, isPointerLocked,
                  sensor_vars, dom_vars, lookPad, browser, pending, resolved, disposed,
                  caller_vars, bound_vars >>

\* a setSpeed that keeps the speed within the range of the panel's slider
setSpeedClamped(speed) ==
  /\ state' = [state EXCEPT !.speed = clamp(speed, 5, 100)]
  /\ UNCHANGED << input_vars, collider_vars, look_vars, isPointerLocked,
                  sensor_vars, camera, dom_vars, lookPad, browser, pending, resolved,
                  disposed, caller_vars, bound_vars >>

setSpeed(speed) ==
  /\ state' = [state EXCEPT !.speed = speed]
  /\ UNCHANGED << input_vars, collider_vars, look_vars, isPointerLocked,
                  sensor_vars, camera, dom_vars, lookPad, browser, pending, resolved,
                  disposed, caller_vars, bound_vars >>

setLookSpeed(speed) ==
  /\ state' = [state EXCEPT !.lookSpeed = speed]
  /\ UNCHANGED << input_vars, collider_vars, look_vars, isPointerLocked,
                  sensor_vars, camera, dom_vars, lookPad, browser, pending, resolved,
                  disposed, caller_vars, bound_vars >>

\* a setColliders that keeps the colliders it already has
setCollidersAppending(colliders) ==
  /\ colliderTargets' = colliderTargets \o colliders
  /\ UNCHANGED << state, input_vars, colliderRadius, look_vars, isPointerLocked,
                  sensor_vars, camera, dom_vars, lookPad, browser, pending, resolved,
                  disposed, caller_vars, bound_vars >>

setColliders(colliders) ==
  /\ colliderTargets' = colliders
  /\ UNCHANGED << state, input_vars, colliderRadius, look_vars, isPointerLocked,
                  sensor_vars, camera, dom_vars, lookPad, browser, pending, resolved,
                  disposed, caller_vars, bound_vars >>

setColliderRadius(radius) ==
  /\ colliderRadius' = radius
  /\ UNCHANGED << state, input_vars, colliderTargets, look_vars, isPointerLocked,
                  sensor_vars, camera, dom_vars, lookPad, browser, pending, resolved,
                  disposed, caller_vars, bound_vars >>

\* the record the caller of getState holds: the state itself when getState
\* handed out the live object
Held == IF snapshot.object = "state" THEN state ELSE snapshot.value

\* a getState that returns the state object itself
getStateLive ==
  /\ snapshot' = [object |-> "state"]
  /\ UNCHANGED << state, input_vars, collider_vars, look_vars, isPointerLocked,
                  sensor_vars, camera, dom_vars, lookPad, browser, pending, resolved,
                  disposed, spawned, panel, bound_vars >>

\* getState: ({ ...state }), a new object with the fields of state
getState ==
  /\ snapshot' = [object |-> "copy", value |-> state]
  /\ UNCHANGED << state, input_vars, collider_vars, look_vars, isPointerLocked,
                  sensor_vars, camera, dom_vars, lookPad, browser, pending, resolved,
                  disposed, spawned, panel, bound_vars >>

\* the caller assigns a field of the record getState returned
writeSnapshot(write) ==
  /\ snapshot.object # "none"
  /\ IF snapshot.object = "state"
     THEN /\ state' = [state EXCEPT ![write.field] = write.value]
          /\ UNCHANGED snapshot
     ELSE /\ snapshot' = [snapshot EXCEPT !.value[write.field] = write.value]
          /\ UNCHANGED state
  /\ UNCHANGED << input_vars, collider_vars, look_vars, isPointerLocked,
                  sensor_vars, camera, dom_vars, lookPad, browser, pending, resolved,
                  disposed, spawned, panel, bound_vars >>

\* createUI, navigation section: reads getState, builds the 'Gyro Look' checkbox
\* when the sensor is available and attempts to enable the gyro at once
createUI ==
  /\ ~panel.created
  /\ snapshot' = [object |-> "copy", value |-> state]
  /\ IF state.gyroAvailable /\ ~state.gyroEnabled
     THEN /\ setGyroEnabled(TRUE)
          /\ panel' =
               IF pending' > pending
               THEN [created |-> TRUE, toggle |-> TRUE, checked |-> FALSE,
                     awaiting |-> [auto |-> 1, change |-> 0]]
               ELSE [created |-> TRUE, toggle |-> TRUE, checked |-> resolved'.value,
                     awaiting |-> [auto |-> 0, change |-> 0]]
     ELSE /\ panel' = [created |-> TRUE, toggle |-> state.gyroAvailable,
                       checked |-> state.gyroEnabled,
                       awaiting |-> [auto |-> 0, change |-> 0]]
          /\ UNCHANGED << state, input_vars, collider_vars, look_vars,
                          isPointerLocked, sensor_vars, camera, dom_vars, lookPad,
                          browser, pending, resolved, disposed, bound_vars >>
  /\ UNCHANGED spawned

\* the user flips the 'Gyro Look' checkbox: its change listener calls
\* setGyroEnabled(input.checked) and unchecks the box when the promise
\* resolves to false
gyroToggleChange ==
  /\ panel.toggle
  /\ setGyroEnabled(~panel.checked)
  /\ panel' =
       IF pending' > pending
       THEN [panel EXCEPT !.checked = ~panel.checked,
                          !.awaiting.change = panel.awaiting.change + 1]
       ELSE [panel EXCEPT !.checked = resolved'.value /\ ~panel.checked]
  /\ UNCHANGED << spawned, snapshot >>

\* a permission request of the panel settles and the callback the panel
\* attached to the promise runs: the automatic attempt checks the box on true,
\* the change listener unchecks it on false
promiseSettled(handler, permission) ==
  /\ panel.awaiting[handler] > 0
  /\ permissionSettled(permission)
  /\ panel' =
       [panel EXCEPT !.awaiting[handler] = panel.awaiting[handler] - 1,
                     !.checked = IF handler = "auto"
                                 THEN resolved'.value \/ panel.checked
                                 ELSE resolved'.value /\ panel.checked]
  /\ UNCHANGED << spawned, snapshot >>

\* the owner of the camera writes its position, as the entry script does once the
\* models are loaded: spawn.getWorldPosition(camera.position)
placeAtSpawn(spawn) ==
  /\ ~spawned
  /\ spawned' = TRUE
  /\ camera' = [camera EXCEPT !.position = spawn]
  /\ UNCHANGED << state, input_vars, collider_vars, look_vars, isPointerLocked,
                  sensor_vars, dom_vars, lookPad, browser, pending, resolved, disposed,
                  snapshot, panel, bound_vars >>

(***************************************************************************)
(* Specifications                                                          *)
(***************************************************************************)
\* the gyro life cycle and the listeners
Next ==
  \/ \E event \in Readings : handleDeviceOrientation(event)
  \/ \E angle \in ScreenAngles : handleOrientationChange(angle)
  \/ \E enabled \in BOOLEAN : setGyroEnabled(enabled) /\ UNCHANGED caller_vars
  \/ \E permission \in Permissions :
       permissionSettled(permission) /\ UNCHANGED caller_vars
  \/ update(100)
  \/ dispose

Spec == Init /\ [][Next]_vars

\* the orientation sources: mouse look, the look pad, the sensor
NextLook ==
  \/ requestPointerLock
  \/ onPointerLockChange
  \/ \E event \in MouseDeltas : onMouseMove(event)
  \/ \E id \in PointerIds, point \in PadPoints : lookPadPointerDown(id, point)
  \/ \E id \in PointerIds, point \in PadPoints : lookPadPointerMove(id, point)
  \/ resetLook
  \/ \E event \in Readings : handleDeviceOrientation(event)
  \/ \E enabled \in BOOLEAN : setGyroEnabled(enabled) /\ UNCHANGED caller_vars
  \/ \E permission \in Permissions :
       permissionSettled(permission) /\ UNCHANGED caller_vars
  \/ update(100)

SpecLook == Init /\ [][NextLook]_vars

\* movement and the collision guard, on a desktop, with the camera turned
InitMove ==
  \E rotation \in Rotations :
    Construct([createCamera EXCEPT !.rotation = rotation], FALSE, FALSE, FALSE)

NextMove ==
  \/ \E code \in KeyCodes : onKeyDown(code)
  \/ \E code \in KeyCodes : onKeyUp(code)
  \/ \E enabled \in BOOLEAN : setFlyMode(enabled)
  \/ \E colliders \in ColliderSets : setColliders(colliders)
  \/ \E spawn \in SpawnPositions : placeAtSpawn(spawn)
  \/ \E delta \in Deltas : update(delta)

SpecMove == InitMove /\ [][NextMove]_vars

\* the control panel: the setters and the snapshot query, on a desktop whose
\* browser has the orientation sensor and asks no permission
InitPanel == Construct(createCamera, FALSE, TRUE, FALSE)

NextPanel ==
  \/ getState
  \/ \E write \in SnapshotWrites : writeSnapshot(write)
  \/ \E enabled \in BOOLEAN : setFlyMode(enabled)
  \/ \E speed \in Speeds : setSpeed(speed)
  \/ \E speed \in LookSpeeds : setLookSpeed(speed)
  \/ \E radius \in Radii : setColliderRadius(radius)
  \/ \E enabled \in BOOLEAN : setGyroEnabled(enabled) /\ UNCHANGED caller_vars

SpecPanel == InitPanel /\ [][NextPanel]_vars

\* the keyboard and the joystick of a touch device
InitInput == Construct(createCamera, TRUE, FALSE, FALSE)

NextInput ==
  \/ \E code \in InputKeyCodes : onKeyDown(code)
  \/ \E code \in InputKeyCodes : onKeyUp(code)
  \/ \E id \in MovePointerIds, point \in MovePoints : movePadPointerDown(id, point)
  \/ \E id \in MovePointerIds, point \in MovePoints : movePadPointerMove(id, point)
  \/ resetMove

SpecInput == InitInput /\ [][NextInput]_vars

\* the control panel's gyro checkbox on every platform
NextToggle ==
  \/ createUI
  \/ gyroToggleChange
  \/ \E handler \in {"auto", "change"}, permission \in Permissions :
       promiseSettled(handler, permission)
  \/ \E event \in Readings : handleDeviceOrientation(event)
  \/ update(100)

SpecToggle == Init /\ [][NextToggle]_vars

\* one frame after another from what the keys, the joystick, setSpeed and
\* setFlyMode can have left: any key flags, the joystick released or held at
\* one of MovePoints, a speed of either sign, fly mode or walk mode at walk height
InitStep ==
  \E flags \in [{"forward", "backward", "left", "right", "up", "down"} -> {0, 1}],
     held \in BOOLEAN, point \in MovePoints, speed \in StepSpeeds,
     fly \in BOOLEAN, rotation \in Rotations :
    /\ state = [flyMode |-> fly, speed |-> speed, lookSpeed |-> 20,
                walkHeight |-> 1600, gyroEnabled |-> FALSE, gyroAvailable |-> FALSE]
    /\ movement = flags
    /\ lastKeyDown = [flag \in DOMAIN KeyTable |-> flags[flag] = 1]
    /\ movePad = [pointerId |-> IF held THEN 1 ELSE NoPointer,
                  center |-> Center(MoveRect), radius |-> Radius(MoveRect)]
    /\ touchMovement = IF held
                       THEN updateMove(point, Center(MoveRect), Radius(MoveRect))
                       ELSE [x |-> 0, z |-> 0]
    /\ Closure([position |-> IF fly THEN createCamera.position
                             ELSE [createCamera.position EXCEPT !.y = 1600],
                rotation |-> rotation], TRUE, FALSE, FALSE)

NextStep == \E delta \in StepDeltas : update(delta)

SpecStep == InitStep /\ [][NextStep]_vars

(***************************************************************************)
(* Movement and collision                                                  *)
(***************************************************************************)
\* C1: after every update made while flyMode is false, whatever the camera
\* position was before it and whether the step was accepted or rejected, the
\* camera's vertical coordinate is walkHeight.
C1_WalkHeightAfterUpdate ==
  [][\A delta \in Deltas :
       (update(delta) /\ ~state.flyMode) =>
         camera'.position.y = state.walkHeight]_vars

\* the distances from origin to the colliders the ray (origin, dir) meets ahead
HitsAhead(origin, dir) ==
  { HitDistance(origin, dir, colliderTargets[i]) :
      i \in { j \in 1..Len(colliderTargets) :
                LET w == colliderTargets[j]
                IN /\ Along(dir, w.axis) # 0
                   /\ (w.at - Along(origin, w.axis)) * Along(dir, w.axis) >= 0 } }

\* C2: an update that attempts a displacement of length d > 0 with colliders
\* set leaves the camera at the pre-step position when the nearest hit h along
\* the displacement has h < d + radius, and at the integrated position otherwise.
C2_StepRejectedOrCommitted ==
  [][\A delta \in Deltas :
       LET previous == camera.position
           integrated == Integrated(camera.rotation, delta)
           step == VecSub(integrated, previous)
           d == Length(step)
       IN (update(delta) /\ d > 0 /\ Len(colliderTargets) > 0) =>
            camera'.position =
              IF \E h \in HitsAhead(previous, Normalize(step)) :
                   h < d + colliderRadius
              THEN previous
              ELSE integrated]_vars

\* the collider 1.0 ahead of the camera, radius 0.35: of two moving frames the
\* step of 0.9 was rejected and the step of 0.501 accepted
C2_RejectedThenAccepted ==
  /\ moves = 2
  /\ ~spawned
  /\ state.flyMode
  /\ colliderRadius = 350
  /\ camera.rotation = createCamera.rotation
  /\ camera.position = Vec(0, 1000, 4499)

(***************************************************************************)
(* The gyro life cycle and the listeners                                   *)
(***************************************************************************)
\* C4: every setGyroEnabled call resolves to a boolean equal to gyroEnabled at
\* the moment it resolves; the value is true only if true was requested,
\* gyroAvailable holds and the permission request, where the permission API
\* exists, resolved "granted"; every other call resolves false with gyroEnabled
\* false.
C4_ResolvesToGyroEnabled ==
  [][/\ \A enabled \in BOOLEAN :
          (setGyroEnabled(enabled) /\ pending' = pending) =>
            /\ resolved' = Resolved(enabled, state'.gyroEnabled)
            /\ resolved'.value <=>
                 (enabled /\ state.gyroAvailable /\ ~browser.requestPermission)
     /\ \A permission \in Permissions :
          permissionSettled(permission) =>
            /\ resolved' = Resolved(TRUE, state'.gyroEnabled)
            /\ resolved'.value <=>
                 (state.gyroAvailable /\ permission = "granted")]_vars

\* a call resolved true through a granted permission request
C4_GrantedResolvesTrue ==
  /\ browser.requestPermission
  /\ resolved = Resolved(TRUE, TRUE)
  /\ state.gyroEnabled

\* C5: once dispose() has returned, no controller listener is registered on
\* document, window or the render element in any later state.
C5_NoListenerAfterDispose == disposed => listeners = {}

\* C6: dispose() removes every listener the controller registered, on document,
\* the render element and window, and detaches the touch-control element.
C6_DisposeRemovesEveryListener ==
  [][dispose => (listeners' = {} /\ touchControls' # "attached")]_vars

\* C7: the deviceorientation and orientationchange listeners are registered
\* only if gyroEnabled is true.
C7_SensorListenersOnlyWhileEnabled ==
  (Registered("window", "deviceorientation")
     \/ Registered("window", "orientationchange")) => state.gyroEnabled

(***************************************************************************)
(* The orientation sources                                                 *)
(***************************************************************************)
\* a mouse delta taken under pointer lock, a touch delta of the captured pointer
MouseLook(event) == onMouseMove(event) /\ looks' = looks + 1
TouchLook(id, point) == lookPadPointerMove(id, point) /\ looks' = looks + 1
PitchMin == -HalfPi + PitchMargin
PitchMax == HalfPi - PitchMargin

\* C3: after gyro was switched on, driven by sensor readings and switched off,
\* the first mouse or touch look delta turns the camera by exactly that delta
\* from the yaw and pitch the camera held when gyro was switched off.
C3_LookResumesFromCamera ==
  [][(~state.gyroEnabled /\ resolved = Resolved(FALSE, FALSE)) =>
       /\ \A event \in MouseDeltas :
            MouseLook(event) =>
              /\ camera'.rotation.y =
                   camera.rotation.y - event.x * state.lookSpeed
              /\ camera'.rotation.x =
                   clamp(camera.rotation.x - event.y * state.lookSpeed,
                         PitchMin, PitchMax)
       /\ \A id \in PointerIds, point \in PadPoints :
            TouchLook(id, point) =>
              LET dx == point.x - lookPad.lastLook.x
                  dy == point.y - lookPad.lastLook.y
              IN /\ camera'.rotation.y =
                      camera.rotation.y - RDiv(dx * state.lookSpeed * 15, 10)
                 /\ camera'.rotation.x =
                      clamp(camera.rotation.x - RDiv(dy * state.lookSpeed * 15, 10),
                            PitchMin, PitchMax)]_vars

\* C8: the pitch accumulator lies within the clamp range after every update.
\* update reads and writes no accumulator and can run in every state, so the
\* states after an update are the states with the accumulator of any state.
C8_PitchWithinClamp == PitchMin <= pitch /\ pitch <= PitchMax

\* C9: the orientation source selected by gyroEnabled, and no other, changes
\* the camera orientation: with gyro on, look deltas change neither the
\* accumulators nor the camera rotation, and mouse deltas not the look offset;
\* with gyro off, update and sensor events leave the camera rotation as it is,
\* and only mouse deltas under pointer lock and touch deltas change it.
C9_OneOrientationSource ==
  [][/\ state.gyroEnabled =>
          /\ \A event \in MouseDeltas :
               onMouseMove(event) =>
                 UNCHANGED << yaw, pitch, camera, lookOffsetYaw, lookOffsetPitch >>
          /\ \A id \in PointerIds, point \in PadPoints :
               lookPadPointerMove(id, point) => UNCHANGED << yaw, pitch, camera >>
     /\ ~state.gyroEnabled =>
          /\ (update(100) \/ \E event \in Readings : handleDeviceOrientation(event))
               => camera'.rotation = camera.rotation
          /\ camera'.rotation # camera.rotation =>
               \/ isPointerLocked /\ \E event \in MouseDeltas : MouseLook(event)
               \/ \E id \in PointerIds, point \in PadPoints : TouchLook(id, point)]_vars

\* a touch delta taken with gyro on went to the look offset and an update has
\* turned the camera from the sensor reading and that offset
C9_OffsetUnderGyro ==
  /\ state.gyroEnabled
  /\ deviceOrientation.present
  /\ looks > 0
  /\ lookOffsetPitch # 0
  /\ camera.rotation = GyroRotation
  /\ camera.rotation # Vec(pitch, yaw, 0)

Clear(p) ==
  \A i \in 1..Len(colliderTargets) :
    Abs(colliderTargets[i].at - Along(p, colliderTargets[i].axis)) >= colliderRadius

\* C11: with the colliders and the radius left as they are, an update or a
\* setFlyMode call that starts at least the clearance radius away from every
\* collider surface leaves the camera at least that far from every surface.
C11_ClearanceKept ==
  [][(/\ Clear(camera.position)
      /\ \/ \E delta \in Deltas : update(delta)
         \/ \E enabled \in BOOLEAN : setFlyMode(enabled)) =>
       Clear(camera'.position)]_vars

C15_UpdateChangesOnlyCamera ==
  [][(\E delta \in Deltas : update(delta)) =>
       UNCHANGED << state, colliderTargets, colliderRadius, movement, touchMovement,
                    listeners, touchControls >>]_vars

C15_MovedWithKeysHeld ==
  /\ moves > 0
  /\ movement.forward = 1
  /\ movement.up = 1
  /\ ~state.flyMode
  /\ Len(colliderTargets) > 0
  /\ camera.position # createCamera.position

\* C16: setFlyMode(false) clears flyMode and puts the camera at walkHeight with
\* its horizontal coordinates and its rotation as they were; setFlyMode(true)
\* sets flyMode and leaves the camera alone; neither changes speed, lookSpeed,
\* walkHeight or gyroEnabled.
C16_FlyModeSwitch ==
  [][\A enabled \in BOOLEAN :
       setFlyMode(enabled) =>
         /\ state' = [state EXCEPT !.flyMode = enabled]
         /\ enabled => camera' = camera
         /\ ~enabled =>
              /\ camera'.position =
                   Vec(camera.position.x, state.walkHeight, camera.position.z)
              /\ camera'.rotation = camera.rotation]_vars

C16_SnappedByWalkSwitch ==
  /\ ~state.flyMode
  /\ moves = 0
  /\ ~spawned
  /\ camera.position = Vec(createCamera.position.x, state.walkHeight,
                           createCamera.position.z)
  /\ camera.position # createCamera.position

\* C17: after setColliders(L) the active collider set is exactly L, whatever it
\* was before; while the collider set is empty every update commits the
\* integrated position.
C17_CollidersReplaced ==
  [][/\ \A colliders \in ColliderSets :
          setColliders(colliders) => colliderTargets' = colliders
     /\ \A delta \in Deltas :
          (update(delta) /\ colliderTargets = << >>) =>
            camera'.position = Integrated(GyroRotation, delta)]_vars

C17_ThroughClearedWall ==
  /\ colliderTargets = << >>
  /\ moves = MaxMoves
  /\ ~spawned
  /\ camera.position.z < 4000 - colliderRadius
  /\ camera.position.z > 3000

\* C20: overlapping setGyroEnabled calls are not serialised: a setGyroEnabled(false)
\* issued while a setGyroEnabled(true) awaits permission completes at once and
\* leaves that call waiting, and the grant that arrives after the disable sets
\* gyroEnabled and subscribes both sensor listeners.
C20_GrantAfterDisableEnables ==
  [][/\ (setGyroEnabled(FALSE) /\ pending > 0) =>
          /\ pending' = pending
          /\ ~state'.gyroEnabled
          /\ resolved' = Resolved(FALSE, FALSE)
     /\ (permissionSettled("granted") /\ resolved = Resolved(FALSE, FALSE)) =>
          /\ state'.gyroEnabled
          /\ resolved' = Resolved(TRUE, TRUE)
          /\ Listener("window", "deviceorientation", "handleDeviceOrientation", TRUE)
               \in listeners'
          /\ Listener("window", "orientationchange", "handleOrientationChange", FALSE)
               \in listeners']_vars

C20_DisabledWhileAwaiting ==
  /\ pending > 0
  /\ resolved = Resolved(FALSE, FALSE)
  /\ ~state.gyroEnabled
  /\ ~disposed
  /\ ~Registered("window", "deviceorientation")

(***************************************************************************)
(* The control panel's view of the controller                              *)
(***************************************************************************)
\* C18: getState returns a record equal to the navigation state; a write to a
\* returned record changes nothing of the controller, and setFlyMode, setSpeed,
\* setLookSpeed and setGyroEnabled leave a record returned earlier as it was.
C18_SnapshotIsACopy ==
  [][/\ getState => Held' = state
     /\ (\E write \in SnapshotWrites : writeSnapshot(write)) =>
          UNCHANGED << state, collider_vars, camera, look_vars, listeners >>
     /\ (/\ snapshot.object # "none"
         /\ \/ \E enabled \in BOOLEAN : setFlyMode(enabled)
            \/ \E speed \in Speeds : setSpeed(speed)
            \/ \E speed \in LookSpeeds : setLookSpeed(speed)
            \/ \E enabled \in BOOLEAN :
                 setGyroEnabled(enabled) /\ UNCHANGED caller_vars) =>
          Held' = Held]_vars

C18_StaleAndWrittenSnapshot ==
  /\ snapshot.object # "none"
  /\ Held.speed = 990
  /\ Held.flyMode
  /\ ~Held.gyroEnabled
  /\ state.speed = 0
  /\ ~state.flyMode
  /\ state.gyroEnabled

\* C19: setSpeed, setLookSpeed and setColliderRadius store the value they are
\* given, zero and negative values included, and change nothing else.
C19_SettersStoreAnyValue ==
  [][/\ \A speed \in Speeds :
          setSpeed(speed) =>
            /\ state' = [state EXCEPT !.speed = speed]
            /\ UNCHANGED << collider_vars, camera, look_vars, input_vars, dom_vars >>
     /\ \A speed \in LookSpeeds :
          setLookSpeed(speed) =>
            /\ state' = [state EXCEPT !.lookSpeed = speed]
            /\ UNCHANGED << collider_vars, camera, look_vars, input_vars, dom_vars >>
     /\ \A radius \in Radii :
          setColliderRadius(radius) =>
            /\ colliderRadius' = radius
            /\ UNCHANGED << state, colliderTargets, camera, look_vars, input_vars,
                            dom_vars >>]_vars

C19_ZeroAndNegativeStored ==
  /\ state.speed < 0
  /\ state.lookSpeed = 0
  /\ colliderRadius < 0

(***************************************************************************)
(* Keys and joystick                                                       *)
(***************************************************************************)
\* C14: after any sequence of key and joystick events the raw input of update is
\* the sum of the contributions: x = right - left + touchX, y = up - down,
\* z = forward - backward - touchZ; opposite keys cancel, a key and the joystick
\* on one axis add up, and x and z stay within [-2, 2], y within [-1, 1].
C14_RawInputIsSum ==
  /\ inputX = (movement.right - movement.left) * Scale + touchMovement.x
  /\ inputY = (movement.up - movement.down) * Scale
  /\ inputZ = (movement.forward - movement.backward) * Scale - touchMovement.z
  /\ movement.right = movement.left => inputX = touchMovement.x
  /\ movement.forward = movement.backward => inputZ = -touchMovement.z
  /\ movement.up = movement.down => inputY = 0
  /\ inputX \in (-2 * Scale)..(2 * Scale)
  /\ inputZ \in (-2 * Scale)..(2 * Scale)
  /\ inputY \in (-Scale)..Scale

C14_KeyAndStickAdd ==
  /\ movement.right = 1
  /\ movement.left = 0
  /\ touchMovement.x = Scale
  /\ inputX = 2 * Scale
  /\ movement.forward = 1
  /\ movement.backward = 1
  /\ touchMovement.z = -Scale
  /\ inputZ = Scale

\* the distance between two positions, in millimetres
Travelled(from, to) == Length(VecSub(to, from))

\* C13: an update in fly mode, or in walk mode from the walk height, moves the
\* camera by no more than |speed| * delta whatever keys and joystick axes are
\* active (to within 2 mm of rounding); with forward and right alone, speed 3
\* and delta 1 it moves the camera by 3.
C13_StepWithinSpeed ==
  [][\A delta \in StepDeltas :
       (/\ update(delta)
        /\ state.flyMode \/ camera.position.y = state.walkHeight) =>
         /\ Travelled(camera.position, camera'.position) <=
              (Abs(state.speed) * delta) \div 10 + 2
         /\ (/\ movement = [forward |-> 1, backward |-> 0, left |-> 0,
                            right |-> 1, up |-> 0, down |-> 0]
             /\ touchMovement = [x |-> 0, z |-> 0]
             /\ state.speed = 30
             /\ delta = 1000) =>
              Abs(Travelled(camera.position, camera'.position) - 3000) <= 2]_vars

C13_DiagonalStep ==
  /\ moves = 1
  /\ state.flyMode
  /\ state.speed = 30
  /\ movement = [forward |-> 1, backward |-> 0, left |-> 0, right |-> 1,
                 up |-> 0, down |-> 0]
  /\ touchMovement = [x |-> 0, z |-> 0]
  /\ Abs(Travelled(createCamera.position, camera.position) - 3000) <= 2

(***************************************************************************)
(* The gyro checkbox and the permission request                            *)
(***************************************************************************)
\* C21: whenever no setGyroEnabled call is pending, the 'Gyro Look' checkbox is
\* checked exactly when gyroEnabled is true.
C21_CheckboxShowsGyro ==
  (panel.toggle /\ pending = 0) => (panel.checked = state.gyroEnabled)

\* C22: where the browser has a permission request, every setGyroEnabled(true)
\* issues exactly one request and subscribes nothing itself, whatever earlier
\* requests resolved to; the sensor listener is subscribed only by the
\* resumption of a call whose request was granted, a refused request subscribes
\* nothing, and setGyroEnabled(false) issues no request.
C22_RequestBeforeSubscribing ==
  [][/\ (setGyroEnabled(TRUE) /\ browser.requestPermission /\ state.gyroAvailable) =>
          /\ pending' = pending + 1
          /\ UNCHANGED << listeners, state >>
     /\ setGyroEnabled(FALSE) => pending' = pending
     /\ \A permission \in Permissions :
          permissionSettled(permission) =>
            /\ pending' = pending - 1
            /\ permission # "granted" => UNCHANGED listeners
     /\ (/\ browser.requestPermission
         /\ ~Registered("window", "deviceorientation")
         /\ Listener("window", "deviceorientation", "handleDeviceOrientation", TRUE)
              \in listeners') =>
          permissionSettled("granted")]_vars

C22_RequestAfterGrant ==
  /\ browser.requestPermission
  /\ pending > 0
  /\ resolved = Resolved(TRUE, TRUE)
  /\ state.gyroEnabled
  /\ Registered("window", "deviceorientation")

\* C23: a setGyroEnabled(true) that succeeds, at once or when its request is
\* granted, sets the yaw and pitch accumulators to the yaw and pitch of the
\* camera rotation of that moment and both look offsets to 0; one that fails
\* (request refused, sensor unavailable) leaves accumulators and offsets alone.
C23_EnableCapturesCamera ==
  [][/\ ((\/ setGyroEnabled(TRUE) /\ pending' = pending
          \/ permissionSettled("granted")) /\ state'.gyroEnabled) =>
          /\ yaw' = camera.rotation.y
          /\ pitch' = camera.rotation.x
          /\ lookOffsetYaw' = 0
          /\ lookOffsetPitch' = 0
     /\ ((\/ setGyroEnabled(TRUE) /\ pending' = pending
          \/ \E permission \in Permissions : permissionSettled(permission))
         /\ ~state'.gyroEnabled) =>
          UNCHANGED look_vars]_vars

C23_BaselineFromGyroFacing ==
  /\ state.gyroEnabled
  /\ looks = 0
  /\ camera.rotation # createCamera.rotation
  /\ yaw = camera.rotation.y
  /\ pitch = camera.rotation.x
  /\ yaw # 0
  /\ lookOffsetYaw = 0
  /\ lookOffsetPitch = 0

\* C24: the yaw and pitch accumulators change only with a mouse or touch look
\* delta taken while the gyro is disabled and with a change of gyroEnabled;
\* everything else, a setGyroEnabled call that leaves gyroEnabled as it was
\* included, leaves them unchanged.
C24_AccumulatorsChangeOnlyByLookOrTransition ==
  [][(yaw' # yaw \/ pitch' # pitch) =>
       \/ /\ ~state.gyroEnabled
          /\ \/ \E event \in MouseDeltas : onMouseMove(event)
             \/ \E id \in PointerIds, point \in PadPoints : lookPadPointerMove(id, point)
       \/ state'.gyroEnabled # state.gyroEnabled]_vars

\* C25: after any sequence of keydown and keyup events each of the six movement
\* flags is 1 exactly when the last event among the key codes mapped to it was a
\* keydown; an event of a key outside the table changes neither side.
C25_FlagFollowsLastKeyEvent ==
  \A flag \in DOMAIN KeyTable : (movement[flag] = 1) <=> lastKeyDown[flag]

C25_SomeKeysReleased ==
  /\ movement = [forward |-> 0, backward |-> 1, left |-> 1, right |-> 0,
                 up |-> 1, down |-> 1]
  /\ touchMovement = [x |-> 0, z |-> 0]

\* C26: in every state the look-offset pitch lies within [-pi/3, pi/3], and the
\* look offset changes only with a touch look delta taken while the gyro is
\* enabled and with a successful setGyroEnabled(true), which makes it 0.
C26_LookOffsetBounded ==
  /\ [](lookOffsetPitch \in (-ThirdPi)..ThirdPi)
  /\ [][(lookOffsetYaw' # lookOffsetYaw \/ lookOffsetPitch' # lookOffsetPitch) =>
          \/ /\ state.gyroEnabled
             /\ \E id \in PointerIds, point \in PadPoints : lookPadPointerMove(id, point)
          \/ /\ state'.gyroEnabled
             /\ lookOffsetYaw' = 0
             /\ lookOffsetPitch' = 0
             /\ \/ setGyroEnabled(TRUE)
                \/ permissionSettled("granted")]_vars

C26_OffsetAtTheClamp ==
  /\ state.gyroEnabled
  /\ looks > 0
  /\ lookOffsetPitch = -ThirdPi
  /\ lookOffsetYaw # 0

\* C27: in every state both joystick axes lie within [-1, 1] and are 0 while no
\* pointer is captured, from a pointerup or pointercancel to the next
\* pointerdown; they change only with a pointerdown, with a pointermove of the
\* pointer the last pointerdown captured, and with the reset of a pointerup or
\* pointercancel.
C27_JoystickAxesBounded ==
  /\ [](/\ touchMovement.x \in (-Scale)..Scale
        /\ touchMovement.z \in (-Scale)..Scale
        /\ movePad.pointerId = NoPointer => touchMovement = [x |-> 0, z |-> 0])
  /\ [][touchMovement' # touchMovement =>
          \/ \E id \in MovePointerIds, point \in MovePoints :
               movePadPointerDown(id, point)
          \/ \E point \in MovePoints : movePadPointerMove(movePad.pointerId, point)
          \/ resetMove]_vars

C27_StickHeldAtTheRim ==
  /\ movePad.pointerId = 2
  /\ touchMovement = [x |-> Scale, z |-> Scale]
  /\ movement.forward = 0

(***************************************************************************)
(* Walk mode                                                               *)
(***************************************************************************)
\* the walk direction made of the sideways and the forward input alone
Horizontal(forward, right) ==
  UnitClamped(AddScaled(AddScaled(Vec(0, 0, 0), right, inputX), forward, inputZ))

\* C28: in walk mode an update commits the position that the sideways and
\* forward input alone give, whatever the up and down flags are; with forward
\* and up held together the camera still covers speed * delta on the ground.
C28_WalkIgnoresVerticalInput ==
  [][\A delta \in StepDeltas :
       (update(delta) /\ ~state.flyMode) =>
         /\ camera'.position =
              Moved(Horizontal(Forward(camera.rotation),
                               Right(Forward(camera.rotation))), delta)
         /\ (/\ movement = [forward |-> 1, backward |-> 0, left |-> 0,
                            right |-> 0, up |-> 1, down |-> 0]
             /\ touchMovement = [x |-> 0, z |-> 0]) =>
              Abs(Travelled(camera.position, camera'.position)
                    - (Abs(state.speed) * delta) \div 10) <= 2]_vars

C28_WalkedWithUpHeld ==
  /\ ~state.flyMode
  /\ moves = 1
  /\ movement = [forward |-> 1, backward |-> 0, left |-> 0, right |-> 0,
                 up |-> 1, down |-> 0]
  /\ touchMovement = [x |-> 0, z |-> 0]
  /\ camera.position.y = state.walkHeight
  /\ Abs(Travelled([createCamera.position EXCEPT !.y = state.walkHeight],
                   camera.position) - 3000) <= 2

====
